---- MODULE Spec2Model ----
(***************************************************************************)
(* Model of the Metricool MCP adapter.                                     *)
(*                                                                         *)
(* Two entry points serve the MCP endpoint:                                *)
(*   "express" : the Express app (unnamed/part_003) in front of the        *)
(*               MetricoolMCPServer of unnamed/part_002;                   *)
(*   "worker"  : the Worker fetch handler (index.ts), which answers        *)
(*               initialize, notifications/initialized, tools/call and     *)
(*               tools/list itself and hands every other POST to the       *)
(*               MetricoolMCPServer of server.ts.                          *)
(*                                                                         *)
(* Text is a sequence of string tokens; a client-supplied string is a      *)
(* sequence of one-character tokens, so that trimming, URL-escaping and    *)
(* emptiness are computed and not assumed.                                 *)
(***************************************************************************)
EXTENDS Integers, Sequences, FiniteSets, TLC

\* ------------------------------------------------------------------ bounds
MaxSessions == 2
MaxTransports == 3
MaxBatch == 2

\* ------------------------------------------------------------ JS values
Undef == [t |-> "undef", v |-> <<>>]
Null == [t |-> "null", v |-> <<>>]
Str(s) == [t |-> "str", v |-> s]
Num(n) == [t |-> "num", v |-> <<n>>]

DigitOf(n) == CASE n = 0 -> "0" [] n = 1 -> "1" [] n = 2 -> "2" [] n = 3 -> "3"
                [] n = 4 -> "4" [] n = 5 -> "5" [] n = 6 -> "6" [] n = 7 -> "7"
                [] n = 8 -> "8" [] OTHER -> "9"

\* JavaScript truthiness: undefined, null, "" and 0 are falsy.
Truthy(x) == CASE x.t = "str" -> x.v # <<>>
               [] x.t = "num" -> x.v[1] # 0
               [] OTHER -> FALSE

\* String(x) for the values that occur.
ToStr(x) == CASE x.t = "str" -> x.v
              [] x.t = "num" -> <<DigitOf(x.v[1])>>
              [] x.t = "null" -> <<"null">>
              [] OTHER -> <<"undefined">>

RECURSIVE TrimStart(_)
TrimStart(s) == IF s # <<>> /\ Head(s) = " " THEN TrimStart(Tail(s)) ELSE s

RECURSIVE TrimEnd(_)
TrimEnd(s) == IF s # <<>> /\ s[Len(s)] = " "
              THEN TrimEnd(SubSeq(s, 1, Len(s) - 1)) ELSE s

\* String.prototype.trim
Trim(s) == TrimEnd(TrimStart(s))

\* String(args.x || "").trim() : the required-argument coercion.
\* RequiredArg without the trim.
RequiredArg_untrimmed(x) == IF Truthy(x) THEN ToStr(x) ELSE <<>>

RequiredArg(x) == Trim(IF Truthy(x) THEN ToStr(x) ELSE <<>>)

\* OptionalArg that drops undefined and null only.
OptionalArg_keepEmpty(x) == IF x.t \in {"undef", "null"} THEN Undef ELSE Str(ToStr(x))

\* args.x ? String(args.x) : undefined : the optional-argument coercion.
OptionalArg(x) == IF Truthy(x) THEN Str(ToStr(x)) ELSE Undef

NaN == [t |-> "nan", v |-> <<>>]

Digits == {"0", "1", "2", "3", "4", "5", "6", "7", "8", "9"}
DigitValue(c) == CHOOSE n \in 0..9 : DigitOf(n) = c

\* The value of a decimal numeral, most significant digit first.
RECURSIVE NumeralValue(_)
NumeralValue(s) ==
  IF s = <<>> THEN 0
  ELSE 10 * NumeralValue(SubSeq(s, 1, Len(s) - 1)) + DigitValue(s[Len(s)])

\* Number(x): a number is itself, a string is trimmed and read as a decimal
\* numeral, the empty string and null are 0, anything else is NaN.
Number(x) ==
  CASE x.t = "num" -> x
    [] x.t = "null" -> Num(0)
    [] x.t = "str" ->
         IF Trim(x.v) = <<>> THEN Num(0)
         ELSE IF \A i \in 1..Len(Trim(x.v)) : Trim(x.v)[i] \in Digits
         THEN Num(NumeralValue(Trim(x.v)))
         ELSE NaN
    [] OTHER -> NaN

\* JSON.stringify of a property value: NaN is written as null.
stringify(x) == IF x.t = "nan" THEN Null ELSE x

RECURSIVE encodeURIComponent(_)
encodeURIComponent(s) ==
  IF s = <<>> THEN <<>>
  ELSE (IF Head(s) = " " THEN <<"%20">> ELSE <<Head(s)>>)
         \o encodeURIComponent(Tail(s))

\* ------------------------------------------------------- configuration
\* A client-supplied or configured string, one token per character.
UserId == <<"u", "7">>
UserToken == <<"t", "k">>
DefaultBlog == <<"d", "0">>

\* MetricoolConfig values a deployment can have: credentials present or
\* missing, default workspace unset, empty or set.
Configs == [userId : {<<>>, UserId}, userToken : {<<>>, UserToken},
            defaultBlogId : {Undef, Str(<<>>), Str(DefaultBlog)}]

\* A constructor that checks the account id only.
ClientConstructs_userIdOnly(cfg) == cfg.userId # <<>>

\* MetricoolClient's constructor accepts the configuration.
ClientConstructs(cfg) == cfg.userId # <<>> /\ cfg.userToken # <<>>

getDefaultBlogId(cfg) == cfg.defaultBlogId

\* ------------------------------------------------------- upstream replies
\* A JSON value: an array is kept by its elements (rows) when they matter
\* and by their number (n) when they do not.
JArr(n) ==
  [k |-> "arr", n |-> n, hasData |-> FALSE, message |-> <<>>, error |-> <<>>,
   rows |-> <<>>]
JRows(rows) ==
  [k |-> "arr", n |-> Len(rows), hasData |-> FALSE, message |-> <<>>, error |-> <<>>,
   rows |-> rows]
JObj(hasData, n, message, error) ==
  [k |-> "obj", n |-> n, hasData |-> hasData, message |-> message, error |-> error,
   rows |-> <<>>]
JUndef ==
  [k |-> "undef", n |-> 0, hasData |-> FALSE, message |-> <<>>, error |-> <<>>,
   rows |-> <<>>]
JBad ==
  [k |-> "bad", n |-> 0, hasData |-> FALSE, message |-> <<>>, error |-> <<>>,
   rows |-> <<>>]

\* Timeline bodies: the pairs of the specification's example, and pairs
\* whose value is a number, a padded numeral, text that is no numeral, and
\* the empty string.
ExampleRows ==
  << <<Str(<<"2", "0", "2", "4", "0", "1", "0", "1">>), Str(<<"5">>)>>,
     <<Str(<<"2", "0", "2", "4", "0", "1", "0", "2">>), Str(<<"7">>)>> >>
MixedRows ==
  << <<Str(<<"d", "4">>), Str(<<"n", "a">>)>>,
     <<Str(<<"d", "1">>), Num(3)>>,
     <<Str(<<"d", "3">>), Str(<<>>)>>,
     <<Str(<<"d", "2">>), Str(<<" ", "1", "2">>)>> >>

JsonCT == "application/json"
HtmlCT == "text/html"
NoCT == "none"

Reply(status, statusText, ctype, text, json) ==
  [status |-> status, statusText |-> statusText, ctype |-> ctype,
   text |-> text, json |-> json]

\* fetch rejects: the request was sent and no response came back.
FetchFailed == Reply(0, "", NoCT, <<"fetch failed">>, JBad)

\* What the upstream API can answer with.
UpstreamReplies ==
  { Reply(200, "OK", JsonCT, <<"[..]">>, JRows(ExampleRows)),
    Reply(200, "OK", JsonCT, <<"[....]">>, JRows(MixedRows)),
    Reply(200, "OK", JsonCT, <<"{data}">>, JObj(TRUE, 1, <<>>, <<>>)),
    Reply(200, "OK", JsonCT, <<"{}">>, JObj(FALSE, 0, <<>>, <<>>)),
    Reply(200, "OK", JsonCT, <<"not json">>, JBad),
    Reply(200, "OK", HtmlCT, <<"<html>", "maintenance">>, JBad),
    Reply(204, "No Content", NoCT, <<>>, JBad),
    Reply(401, "Unauthorized", JsonCT, <<"{message}">>,
          JObj(FALSE, 0, <<"Invalid token">>, <<>>)),
    Reply(401, "Unauthorized", NoCT, <<"denied">>, JBad),
    Reply(401, "Unauthorized", HtmlCT, <<"<html>", "login">>, JBad),
    Reply(404, "Not Found", JsonCT, <<"{}">>, JObj(FALSE, 0, <<>>, <<>>)),
    Reply(500, "Internal Server Error", HtmlCT, <<"<html>", "oops">>, JBad),
    FetchFailed }

\* Response.ok
Ok(status) == status >= 200 /\ status <= 299

IsHtml(text) == \E i \in 1..Len(text) : text[i] \in {"<!DOCTYPE", "<html>"}

\* ------------------------------------------------------ outbound request
NoParams == [k \in {} |-> <<>>]
NoReq == [method |-> "none", path |-> <<>>, params |-> NoParams]
NoQuery == [k \in {} |-> Undef]

Options(query, blogId) == [query |-> query, blogId |-> blogId]

\* resolveBlogId with the precedence reversed.
resolveBlogId_defaultFirst(cfg, override) ==
  IF Truthy(cfg.defaultBlogId) THEN cfg.defaultBlogId ELSE override

\* override || this.config.defaultBlogId
resolveBlogId(cfg, override) == IF Truthy(override) THEN override ELSE cfg.defaultBlogId

\* The query string both clients build: credentials, the effective workspace
\* when truthy, and every query entry that is neither undefined nor null.
BuildParams(cfg, effectiveBlogId, query) ==
  LET keys == {"userId", "userToken"}
                \cup (IF Truthy(effectiveBlogId) THEN {"blogId"} ELSE {})
                \cup {q \in DOMAIN query : query[q].t \notin {"undef", "null"}}
      fromQuery(p) == p \in DOMAIN query /\ query[p].t \notin {"undef", "null"}
  IN [p \in keys |->
        CASE fromQuery(p) -> ToStr(query[p])
          [] p = "userId" -> cfg.userId
          [] p = "userToken" -> cfg.userToken
          [] OTHER -> ToStr(effectiveBlogId)]

\* Outcome of a client call or of a tool handler: a value or a thrown
\* error, the number of upstream requests issued and the request sent.
\* status is the HTTP status of the upstream reply, 0 when no request was made
\* or no response came back;
\* client is what the upstream client did for its caller ("none" when it
\* was not called), bodyRead whether it read the body of the reply.
Returned(val, calls, sent) ==
  [thrown |-> FALSE, err |-> <<>>, val |-> val, calls |-> calls, sent |-> sent,
   status |-> 0, client |-> "none", bodyRead |-> FALSE, raw |-> JUndef]
Thrown(err, calls, sent) ==
  [thrown |-> TRUE, err |-> err, val |-> JUndef, calls |-> calls, sent |-> sent,
   status |-> 0, client |-> "none", bodyRead |-> FALSE, raw |-> JUndef]
\* raw is the value the client returned to the handler.
Replied(r, up, bodyRead) ==
  [r EXCEPT !.status = up.status, !.bodyRead = bodyRead, !.raw = r.val,
            !.client = IF r.thrown THEN "threw" ELSE "returned"]
\* A handler's own outcome after the client answered r.
After(h, r) ==
  [h EXCEPT !.status = r.status, !.client = r.client, !.bodyRead = r.bodyRead,
            !.raw = r.raw]

\* requestOutcome whose error text quotes the query string of the URL.
requestOutcome_withQuery(sent, up) ==
  Replied(IF up = FetchFailed THEN Thrown(up.text, 1, sent)
          ELSE IF ~Ok(up.status)
          THEN Thrown(<<"Metricool API ", sent.method, " ">> \o sent.path
                        \o <<"?userId=">> \o sent.params.userId
                        \o <<"&userToken=">> \o sent.params.userToken
                        \o <<" failed with ", ToString(up.status), ": ">> \o up.text,
                      1, sent)
          ELSE IF up.status = 204 THEN Returned(JUndef, 1, sent)
          ELSE IF up.json.k = "bad" THEN Thrown(<<"Unexpected token in JSON">>, 1, sent)
          ELSE Returned(up.json, 1, sent),
          up, up.status \notin {0, 204})

\* MetricoolClient.request, from the answer to fetch(url, requestInit) on.
requestOutcome(sent, up) ==
  Replied(IF up = FetchFailed THEN Thrown(up.text, 1, sent)
          ELSE IF ~Ok(up.status)
          THEN Thrown(<<"Metricool API ", sent.method, " ">> \o sent.path
                        \o <<" failed with ", ToString(up.status), ": ">> \o up.text,
                      1, sent)
          ELSE IF up.status = 204 THEN Returned(JUndef, 1, sent)
          ELSE IF up.json.k = "bad" THEN Thrown(<<"Unexpected token in JSON">>, 1, sent)
          ELSE Returned(up.json, 1, sent),
          up, up.status \notin {0, 204})

\* MetricoolClient.request
request(cfg, method, path, options, up) ==
  requestOutcome([method |-> method, path |-> path,
                  params |-> BuildParams(cfg, resolveBlogId(cfg, options.blogId),
                                         options.query)], up)

get(cfg, path, options, up) == request(cfg, "GET", path, options, up)

\* The errorDetails of metricoolApiCall for a reply that is not ok.
errorDetails(up, basic) ==
  IF up.ctype = JsonCT
  THEN IF up.json.k # "obj" THEN basic
       ELSE IF up.json.message # <<>> THEN up.json.message
       ELSE IF up.json.error # <<>> THEN up.json.error
       ELSE basic
  ELSE IF IsHtml(up.text)
       THEN basic \o <<" (HTML error page returned)">>
       ELSE basic \o <<": ">> \o up.text

\* metricoolApiCall of the Worker, from the answer to fetch on.
apiCallOutcome(sent, up) ==
  Replied(IF up = FetchFailed THEN Thrown(up.text, 1, sent)
          ELSE IF ~Ok(up.status)
          THEN Thrown(<<"Metricool API error: ">>
                        \o errorDetails(up, <<ToString(up.status), " ", up.statusText>>),
                      1, sent)
          ELSE IF up.ctype # JsonCT
          THEN IF IsHtml(up.text)
               THEN Thrown(<<"Metricool API returned HTML instead of JSON.">>, 1, sent)
               ELSE Thrown(<<"Metricool API returned non-JSON response: ", up.ctype,
                             ". Body: ">> \o up.text, 1, sent)
          ELSE IF up.json.k = "bad" THEN Thrown(<<"Body has already been used">>, 1, sent)
          ELSE Returned(up.json, 1, sent),
          up, up # FetchFailed)

\* metricoolApiCall of the Worker
metricoolApiCall(cfg, method, path, options, up) ==
  apiCallOutcome([method |-> method, path |-> path,
                  params |-> BuildParams(cfg,
                                         IF Truthy(options.blogId) THEN options.blogId
                                         ELSE cfg.defaultBlogId,
                                         options.query)], up)

\* ---------------------------------------------- MetricoolMCPServer tools
listBrandsTool == "metricool-list-brands"
timelineTool == "metricool-get-timeline"
valuesTool == "metricool-get-values"
reportsTool == "metricool-list-reports"
reportStatusTool == "metricool-report-status"
postsTool == "metricool-get-posts"

\* A tool descriptor of a catalog; the description and the schema are kept
\* by what a client can tell of them: whether the text is empty, the schema type.
Descriptor(name, description, required) ==
  [name |-> name, description |-> description,
   inputSchema |-> [type |-> "object", required |-> required]]

\* The tools array of setupTools (part_002) and of the constructor (server.ts):
\* the same six names in the same order.
ServerTools ==
  << Descriptor(listBrandsTool, "List all brands", {}),
     Descriptor(timelineTool, "Fetch a time series", {"metric"}),
     Descriptor(valuesTool, "Get aggregated values", {"category"}),
     Descriptor(postsTool, "Retrieve website posts", {}),
     Descriptor(reportsTool, "List generated reports", {}),
     Descriptor(reportStatusTool, "Check the status of a report job", {"jobId"}) >>

\* The tools array of the Worker's tools/list branch.
WorkerTools ==
  << Descriptor("metricool-list-brands", "START HERE: List all brands", {}),
     Descriptor("metricool-get-timeline", "Fetch historical data points", {"metric"}),
     Descriptor("metricool-get-values", "Get current aggregated metrics", {"category"}),
     Descriptor("metricool-get-website-posts", "Retrieve website posts", {}),
     Descriptor("metricool-get-instagram-posts", "Retrieve Instagram posts", {}),
     Descriptor("metricool-get-facebook-posts", "Retrieve Facebook posts", {}),
     Descriptor("metricool-get-twitter-posts", "Retrieve Twitter/X posts", {}),
     Descriptor("metricool-list-reports", "List all generated analytics reports", {}),
     Descriptor("metricool-report-status", "Check the processing status", {"jobId"}) >>

NamesOf(tools) == {tools[i].name : i \in 1..Len(tools)}

\* Array.prototype.map applied to the client's result: a TypeError unless
\* the value is an array.
MapRows(r) ==
  IF r.thrown THEN r
  ELSE IF r.val.k = "arr" THEN r
  ELSE IF r.val.k = "undef"
       THEN After(Thrown(<<"Cannot read properties of undefined (reading 'map')">>,
                         r.calls, r.sent), r)
       ELSE After(Thrown(<<"map is not a function">>, r.calls, r.sent), r)

handleListBrands(cfg, up) ==
  MapRows(get(cfg, <<"/admin/simpleProfiles">>, Options(NoQuery, Undef), up))

\* The query of a date range: start and end, each undefined when unset.
RangeQuery(args) ==
  [q \in {"start", "end"} |->
     IF q = "start" THEN OptionalArg(args.start) ELSE OptionalArg(args.end)]

\* The map of handleTimeline that leaves the value as it came.
shapeTimeline_uncoerced(rawPoints) ==
  [i \in 1..Len(rawPoints) |-> [date |-> rawPoints[i][1], value |-> rawPoints[i][2]]]

\* rawPoints.map((entry) => ({ date: entry[0], value: Number(entry[1]) }))
shapeTimeline(rawPoints) ==
  [i \in 1..Len(rawPoints) |->
     [date |-> rawPoints[i][1], value |-> Number(rawPoints[i][2])]]

\* formatAsJson(points) / JSON.stringify(points, null, 2): the points as the
\* result text holds them.
formatPoints(points) ==
  [i \in 1..Len(points) |->
     [date |-> points[i].date, value |-> stringify(points[i].value)]]

\* The content block of handleTimeline for the points mapped from r.
TimelinePoints(r) ==
  IF r.thrown THEN r
  ELSE [r EXCEPT !.val = JRows(formatPoints(shapeTimeline(r.val.rows)))]

\* handleTimeline once the metric is coerced and trimmed.
timelineOf(cfg, metric, args, up) ==
  IF metric = <<>> THEN Thrown(<<"metric is required">>, 0, NoReq)
  ELSE TimelinePoints(
         MapRows(get(cfg, <<"/stats/timeline/">> \o encodeURIComponent(metric),
                     Options(RangeQuery(args), OptionalArg(args.blogId)), up)))

handleTimeline(cfg, args, up) == timelineOf(cfg, RequiredArg(args.metric), args, up)

\* handleValues once the category is coerced and trimmed.
valuesOf(cfg, category, args, up) ==
  IF category = <<>> THEN Thrown(<<"category is required">>, 0, NoReq)
  ELSE get(cfg, <<"/stats/values/">> \o encodeURIComponent(category),
           Options([q \in {"date"} |-> OptionalArg(args.date)],
                   OptionalArg(args.blogId)), up)

handleValues(cfg, args, up) == valuesOf(cfg, RequiredArg(args.category), args, up)

\* blogId ?? this.client.getDefaultBlogId()
Coalesce(x, y) == IF x.t \in {"undef", "null"} THEN y ELSE x

\* (response.data || []).map(...) of handleReports.
ReportItems(r) ==
  IF r.thrown THEN r
  ELSE After(IF r.val.k = "undef"
             THEN Thrown(<<"Cannot read properties of undefined (reading 'data')">>,
                         r.calls, r.sent)
             ELSE IF r.val.k = "obj" /\ r.val.hasData
             THEN Returned(JArr(r.val.n), r.calls, r.sent)
             ELSE Returned(JArr(0), r.calls, r.sent), r)

\* handleReports once the workspace is resolved.
reportsOf(cfg, resolvedBlogId, up) ==
  IF ~Truthy(resolvedBlogId)
  THEN Thrown(<<"blogId is required for reports. ",
                "Set METRICOOL_BLOG_ID or pass blogId.">>, 0, NoReq)
  ELSE ReportItems(get(cfg, <<"/v2/brands/">>
                              \o encodeURIComponent(ToStr(resolvedBlogId))
                              \o <<"/reports">>,
                       Options(NoQuery, resolvedBlogId), up))

handleReports(cfg, args, up) ==
  reportsOf(cfg, Coalesce(OptionalArg(args.blogId), getDefaultBlogId(cfg)), up)

\* statusResponse.data || {} of handleReportStatus.
ReportState(r) ==
  IF r.thrown THEN r
  ELSE After(IF r.val.k = "undef"
             THEN Thrown(<<"Cannot read properties of undefined (reading 'data')">>,
                         r.calls, r.sent)
             ELSE IF r.val.k = "obj" /\ r.val.hasData
             THEN Returned(JObj(FALSE, r.val.n, <<>>, <<>>), r.calls, r.sent)
             ELSE Returned(JObj(FALSE, 0, <<>>, <<>>), r.calls, r.sent), r)

\* handleReportStatus once the job id and the workspace are resolved.
reportStatusOf(cfg, jobId, resolvedBlogId, up) ==
  IF jobId = <<>> THEN Thrown(<<"jobId is required">>, 0, NoReq)
  ELSE IF ~Truthy(resolvedBlogId)
  THEN Thrown(<<"blogId is required for report status. ",
                "Set METRICOOL_BLOG_ID or pass blogId.">>, 0, NoReq)
  ELSE ReportState(get(cfg, <<"/v2/brands/">>
                              \o encodeURIComponent(ToStr(resolvedBlogId))
                              \o <<"/reports/">> \o encodeURIComponent(jobId),
                       Options(NoQuery, resolvedBlogId), up))

handleReportStatus(cfg, args, up) ==
  reportStatusOf(cfg, RequiredArg(args.jobId),
                 Coalesce(OptionalArg(args.blogId), getDefaultBlogId(cfg)), up)

handlePosts(cfg, args, up) ==
  MapRows(get(cfg, <<"/stats/posts">>,
              Options(RangeQuery(args), OptionalArg(args.blogId)), up))

\* A tool result (content block) or an error that left the call handler.
ToolResult(isError, text, val, r) ==
  [escaped |-> FALSE, isError |-> isError, text |-> text, val |-> val,
   calls |-> r.calls, sent |-> r.sent, status |-> r.status,
   client |-> r.client, bodyRead |-> r.bodyRead, raw |-> r.raw]
Escaped(text) ==
  [escaped |-> TRUE, isError |-> TRUE, text |-> text, val |-> JUndef,
   calls |-> 0, sent |-> NoReq, status |-> 0, client |-> "none", bodyRead |-> FALSE,
   raw |-> JUndef]

\* Dispatch whose default case falls into the first handler.
Dispatch_fallthrough(cfg, toolName, args, up) ==
  CASE toolName = timelineTool -> handleTimeline(cfg, args, up)
    [] toolName = valuesTool -> handleValues(cfg, args, up)
    [] toolName = reportsTool -> handleReports(cfg, args, up)
    [] toolName = reportStatusTool -> handleReportStatus(cfg, args, up)
    [] toolName = postsTool -> handlePosts(cfg, args, up)
    [] OTHER -> handleListBrands(cfg, up)

\* The switch of the CallToolRequestSchema handler.
Dispatch(cfg, toolName, args, up) ==
  CASE toolName = listBrandsTool -> handleListBrands(cfg, up)
    [] toolName = timelineTool -> handleTimeline(cfg, args, up)
    [] toolName = valuesTool -> handleValues(cfg, args, up)
    [] toolName = reportsTool -> handleReports(cfg, args, up)
    [] toolName = reportStatusTool -> handleReportStatus(cfg, args, up)
    [] toolName = postsTool -> handlePosts(cfg, args, up)
    [] OTHER -> Thrown(<<"Unknown tool: ", toolName>>, 0, NoReq)

\* A call handler without its catch block: the error leaves the handler.
Caught_rethrown(r) ==
  IF r.thrown
  THEN [ToolResult(TRUE, r.err, JUndef, r) EXCEPT !.escaped = TRUE]
  ELSE ToolResult(FALSE, <<"json">>, r.val, r)

\* The CallToolRequestSchema handler: an empty name is thrown outside the
\* try block, every other failure becomes an isError content block.
Caught(r) ==
  IF r.thrown
  THEN ToolResult(TRUE, <<"Metricool API call failed: ">> \o r.err, JUndef, r)
  ELSE ToolResult(FALSE, <<"json">>, r.val, r)

CallTool(cfg, toolName, args, up) ==
  IF toolName = "" THEN Escaped(<<"Tool name is required">>)
  ELSE Caught(Dispatch(cfg, toolName, args, up))

\* ------------------------------------------------------ Worker tools
idx_handleListBrands(cfg, up) ==
  MapRows(metricoolApiCall(cfg, "GET", <<"/admin/simpleProfiles">>,
                           Options(NoQuery, Undef), up))

idx_timelineOf(cfg, metric, args, up) ==
  IF metric = <<>> THEN Thrown(<<"metric is required">>, 0, NoReq)
  ELSE TimelinePoints(
         MapRows(metricoolApiCall(cfg, "GET",
                   <<"/stats/timeline/">> \o encodeURIComponent(metric),
                   Options(RangeQuery(args), OptionalArg(args.blogId)), up)))

idx_handleTimeline(cfg, args, up) ==
  idx_timelineOf(cfg, RequiredArg(args.metric), args, up)

idx_valuesOf(cfg, category, args, up) ==
  IF category = <<>> THEN Thrown(<<"category is required">>, 0, NoReq)
  ELSE metricoolApiCall(cfg, "GET",
         <<"/stats/values/">> \o encodeURIComponent(category),
         Options([q \in {"date"} |-> OptionalArg(args.date)],
                 OptionalArg(args.blogId)), up)

idx_handleValues(cfg, args, up) ==
  idx_valuesOf(cfg, RequiredArg(args.category), args, up)

\* handleWebsitePosts, handleInstagramPosts, handleFacebookPosts and
\* handleTwitterPosts differ in the path only.
idx_handleChannelPosts(cfg, path, args, up) ==
  metricoolApiCall(cfg, "GET", path,
                   Options(RangeQuery(args), OptionalArg(args.blogId)), up)

idx_handleListReports(cfg, args, up) ==
  metricoolApiCall(cfg, "GET", <<"/reports">>,
                   Options(NoQuery, OptionalArg(args.blogId)), up)

idx_reportStatusOf(cfg, jobId, args, up) ==
  IF jobId = <<>> THEN Thrown(<<"jobId is required">>, 0, NoReq)
  ELSE metricoolApiCall(cfg, "GET",
         <<"/reports/">> \o encodeURIComponent(jobId) \o <<"/status">>,
         Options(NoQuery, OptionalArg(args.blogId)), up)

idx_handleReportStatus(cfg, args, up) ==
  idx_reportStatusOf(cfg, RequiredArg(args.jobId), args, up)

\* The switch of the Worker's tools/call branch.
idx_Dispatch(cfg, toolName, args, up) ==
  CASE toolName = "metricool-list-brands" -> idx_handleListBrands(cfg, up)
    [] toolName = "metricool-get-timeline" -> idx_handleTimeline(cfg, args, up)
    [] toolName = "metricool-get-values" -> idx_handleValues(cfg, args, up)
    [] toolName = "metricool-get-website-posts" ->
         idx_handleChannelPosts(cfg, <<"/stats/posts">>, args, up)
    [] toolName = "metricool-get-instagram-posts" ->
         idx_handleChannelPosts(cfg, <<"/stats/instagram/posts">>, args, up)
    [] toolName = "metricool-get-facebook-posts" ->
         idx_handleChannelPosts(cfg, <<"/stats/facebook/posts">>, args, up)
    [] toolName = "metricool-get-twitter-posts" ->
         idx_handleChannelPosts(cfg, <<"/stats/twitter/posts">>, args, up)
    [] toolName = "metricool-list-reports" -> idx_handleListReports(cfg, args, up)
    [] toolName = "metricool-report-status" -> idx_handleReportStatus(cfg, args, up)
    [] OTHER -> Thrown(<<"Unknown tool: ", toolName>>, 0, NoReq)

\* String.prototype.includes on a text of tokens: the fragments a token holds.
Fragments(tok) ==
  CASE tok = " (HTML error page returned)" -> {"HTML error page returned"}
    [] tok = "Metricool API returned HTML instead of JSON." ->
         {"returned HTML instead of JSON"}
    [] tok = "fetch failed" -> {"fetch"}
    [] OTHER -> {tok}

Includes(text, needle) == \E i \in 1..Len(text) : needle \in Fragments(text[i])

IncludesAny(text, needles) == \E n \in needles : Includes(text, n)

\* The classification with the status rules tried before the HTML rule.
errorCode_statusFirst(errorMsg) ==
  IF IncludesAny(errorMsg, {"401", "Unauthorized"}) THEN -32600
  ELSE IF IncludesAny(errorMsg, {"403", "Forbidden"}) THEN -32600
  ELSE IF Includes(errorMsg, "404") THEN -32601
  ELSE IF IncludesAny(errorMsg, {"HTML error page returned", "returned HTML instead of JSON"})
  THEN -32002
  ELSE IF IncludesAny(errorMsg, {"500", "502", "503"}) THEN -32002
  ELSE IF IncludesAny(errorMsg, {"timeout", "TIMEOUT"}) THEN -32002
  ELSE IF IncludesAny(errorMsg, {"network", "fetch"}) THEN -32002
  ELSE -32603

\* Error classification of the Worker's tools/call catch block.
errorCode(errorMsg) ==
  IF IncludesAny(errorMsg, {"HTML error page returned", "returned HTML instead of JSON"})
  THEN -32002
  ELSE IF IncludesAny(errorMsg, {"401", "Unauthorized"}) THEN -32600
  ELSE IF IncludesAny(errorMsg, {"403", "Forbidden"}) THEN -32600
  ELSE IF Includes(errorMsg, "404") THEN -32601
  ELSE IF IncludesAny(errorMsg, {"500", "502", "503"}) THEN -32002
  ELSE IF IncludesAny(errorMsg, {"timeout", "TIMEOUT"}) THEN -32002
  ELSE IF IncludesAny(errorMsg, {"network", "fetch"}) THEN -32002
  ELSE -32603

userMessage(errorMsg) ==
  IF IncludesAny(errorMsg, {"HTML error page returned", "returned HTML instead of JSON"})
  THEN <<"Metricool API is temporarily unavailable or returned an error page">>
  ELSE IF IncludesAny(errorMsg, {"401", "Unauthorized"})
  THEN <<"Invalid Metricool credentials. Please check your User ID and Token.">>
  ELSE IF IncludesAny(errorMsg, {"403", "Forbidden"})
  THEN <<"Access denied. Please check your Metricool account permissions.">>
  ELSE IF Includes(errorMsg, "404")
  THEN <<"Metricool API endpoint not found. The tool may be using an outdated API.">>
  ELSE IF IncludesAny(errorMsg, {"500", "502", "503"})
  THEN <<"Metricool API server error. Please try again later.">>
  ELSE IF IncludesAny(errorMsg, {"timeout", "TIMEOUT"})
  THEN <<"Request to Metricool API timed out. Please try again.">>
  ELSE IF IncludesAny(errorMsg, {"network", "fetch"})
  THEN <<"Network error connecting to Metricool API. Please check your connection.">>
  ELSE <<"Metricool API error: ">> \o errorMsg

\* ------------------------------------------------------------ requests
SessionIds == 1..MaxSessions
NoSid == 0
TransportIds == 1..MaxTransports
NoTransport == 0
Servers == {"express", "worker"}

MkArgs(req, blog, start, end, date) ==
  [metric |-> req, category |-> req, jobId |-> req, blogId |-> blog,
   start |-> start, end |-> end, date |-> date]
NoArgs == MkArgs(Undef, Undef, Undef, Undef, Undef)

\* Argument values a client can send: absent, empty, blank, padded, numeric.
BlogVals == {Undef, Str(<<>>), Str(<<"b", "1">>)}
StartVals == {Undef, Str(<<>>), Str(<<"2", "0">>)}
EndVals == {Undef, Str(<<"2", "1">>)}

PostsTools == {postsTool, "metricool-get-website-posts", "metricool-get-instagram-posts",
               "metricool-get-facebook-posts", "metricool-get-twitter-posts"}
ToolNames ==
  NamesOf(ServerTools) \cup NamesOf(WorkerTools) \cup {"", "bogus", "403", "404", "timeout"}

\* The required argument is either unusable (and then the other arguments
\* are all unset or all set) or usable (and then the others vary freely).
BadReq == {Undef, Str(<<>>), Str(<<" ">>)}
GoodReq == {Str(<<" ", "m">>), Num(5)}
SetBlog == Str(<<"b", "1">>)
SetStart == Str(<<"2", "0">>)
SetEnd == Str(<<"2", "1">>)

ArgsFor(name) ==
  CASE name = timelineTool ->
         {MkArgs(r, b, s, e, Undef) : r \in GoodReq, b \in BlogVals,
                                      s \in StartVals, e \in EndVals}
           \cup {MkArgs(r, Undef, Undef, Undef, Undef) : r \in BadReq}
           \cup {MkArgs(r, SetBlog, SetStart, SetEnd, Undef) : r \in BadReq}
    [] name = valuesTool ->
         {MkArgs(r, b, Undef, Undef, d) : r \in GoodReq, b \in BlogVals, d \in StartVals}
           \cup {MkArgs(r, Undef, Undef, Undef, Undef) : r \in BadReq}
           \cup {MkArgs(r, SetBlog, Undef, Undef, SetStart) : r \in BadReq}
    [] name = reportStatusTool ->
         {MkArgs(r, b, Undef, Undef, Undef) : r \in BadReq \cup GoodReq, b \in BlogVals}
    [] name \in {postsTool, "metricool-get-website-posts"} ->
         {MkArgs(Undef, b, s, e, Undef) : b \in BlogVals, s \in StartVals, e \in EndVals}
    [] name \in PostsTools ->
         {MkArgs(Undef, b, Undef, SetEnd, Undef) : b \in BlogVals}
    [] name = reportsTool ->
         {MkArgs(Undef, b, Undef, Undef, Undef) : b \in BlogVals}
    [] OTHER -> {NoArgs}

\* The same with optional arguments sent as JSON null.
NullArgsFor(name) ==
  CASE name = timelineTool ->
         {MkArgs(Num(5), Null, Null, Null, Undef),
          MkArgs(Num(5), Null, SetStart, Str(<<>>), Undef),
          MkArgs(Num(5), SetBlog, Null, SetEnd, Undef)}
    [] name = valuesTool ->
         {MkArgs(Num(5), Null, Undef, Undef, Null),
          MkArgs(Num(5), SetBlog, Undef, Undef, Null)}
    [] name \in PostsTools ->
         {MkArgs(Undef, Null, Null, Null, Undef),
          MkArgs(Undef, Undef, SetStart, Str(<<>>), Undef)}
    [] name \in {reportsTool, reportStatusTool} ->
         {MkArgs(Num(5), Null, Undef, Undef, Undef)}
    [] OTHER -> {}

RequestIds == {1, 2}

Msg(method, id, name, args) == [method |-> method, id |-> id, name |-> name, args |-> args]

PlainMethods == {"initialize", "notifications/initialized", "tools/list", "ping"}
PlainMsgs == {Msg(m, 1, "", NoArgs) : m \in PlainMethods}
               \cup {Msg("tools/call", 1, n, NoArgs) : n \in {listBrandsTool, "bogus"}}
CallMsgs ==
  UNION {{Msg("tools/call", 1, n, a) : a \in ArgsFor(n) \cup NullArgsFor(n)} : n \in ToolNames}
SingleMsgs == CallMsgs \cup {Msg(m, i, "", NoArgs) : m \in PlainMethods, i \in RequestIds}
                \cup {Msg("tools/call", 2, listBrandsTool, NoArgs)}

Body(form, msgs) == [form |-> form, msgs |-> msgs]
\* Arrays of messages: handshakes, catalog reads and tool calls in any order.
BatchMsgs == {Msg(m, 1, "", NoArgs) : m \in {"initialize", "tools/list"}}
               \cup {Msg("tools/call", 1, listBrandsTool, NoArgs)}
Batches == UNION {[1..n -> BatchMsgs] : n \in 1..MaxBatch}

\* Request bodies whose tool calls carry no arguments: one message, an array
\* of messages, no body, or text that is not JSON (which express.json()
\* turns away before the handler, and the Worker fails to parse itself).
PlainBodies == {Body("single", <<m>>) : m \in PlainMsgs}
                 \cup {Body("batch", b) : b \in Batches}
                 \cup {Body("empty", <<>>)}
\* Every request body: also single messages with ids and tool arguments.
Bodies == PlainBodies \cup {Body("single", <<m>>) : m \in SingleMsgs}
Invalid == Body("invalid", <<>>)

HasInit(msgs) == \E i \in 1..Len(msgs) : msgs[i].method = "initialize"

\* isInitializeRequest looking at the first element of an array only.
isInitializeRequest_first(body) ==
  body.form \in {"single", "batch"} /\ body.msgs[1].method = "initialize"

\* InitializeRequestSchema.safeParse on the body or on some element of it.
isInitializeRequest(body) == body.form \in {"single", "batch"} /\ HasInit(body.msgs)

\* --------------------------------------------------------------- state
\* deployment : which entry point this process is
\* cfg        : the MetricoolConfig built from the environment at startup
\* transports : MetricoolMCPServer.transports, session id -> transport
\* tSession   : transport.sessionId of every transport constructed so far
\* nT         : number of transports constructed so far
\* firstBound : the transport a session id was first registered with
\* closed     : cleanup() has run and the process has exited
\* req, resp  : the request being answered and its response
\* pending    : the handshake handlers suspended at an await (none while
\*              every handler runs to its end before the next request)
VARIABLES deployment, cfg, transports, tSession, nT, firstBound, closed, req, resp, pending

vars == <<deployment, cfg, transports, tSession, nT, firstBound, closed, req, resp, pending>>

NoTool == [escaped |-> FALSE, isError |-> FALSE, text |-> <<>>, val |-> JUndef,
           calls |-> 0, sent |-> NoReq, status |-> 0, client |-> "none",
           bodyRead |-> FALSE, raw |-> JUndef]

\* What one message of a request was answered with.
Outcome(msg, served, catalog, tool) ==
  [method |-> msg.method, id |-> msg.id, name |-> msg.name, served |-> served,
   catalog |-> catalog, tool |-> tool]

NoRequest == [verb |-> "none", sid |-> NoSid, body |-> Body("empty", <<>>)]
Request(verb, sid, body) == [verb |-> verb, sid |-> sid, body |-> body]

\* kind: who wrote the response ("sdk": the transport; "rpcError", "rpcResult",
\* "plain": this code; "exception": nobody, an error left the handler);
\* via: the function of this repository that answered; handledBy: the
\* transport whose handleRequest was called; constructed, connected: the
\* transport made for the request and whether connect returned; registered:
\* the session id added to the registry; notifications: messages streamed.
Resp(kind, http, code, message, data, id, results, handledBy, constructed, connected, registered, notifications) ==
  [kind |-> kind, via |-> "handlePostRequest", http |-> http, code |-> code,
   message |-> message, data |-> data,
   id |-> id, results |-> results, handledBy |-> handledBy,
   constructed |-> constructed, connected |-> connected,
   registered |-> registered, notifications |-> notifications]

NoResp == [Resp("none", 0, 0, <<>>, <<>>, 0, <<>>, NoTransport, NoTransport,
                FALSE, NoSid, 0) EXCEPT !.via = "none"]

\* A response written without any transport.
Direct(kind, http, code, message, data, id, results) ==
  [Resp(kind, http, code, message, data, id, results, NoTransport, NoTransport,
        FALSE, NoSid, 0) EXCEPT !.via = "fetch"]

\* createErrorResponse(message) written with the given HTTP status.
createErrorResponse(http, message, handledBy, constructed, connected) ==
  Resp("rpcError", http, -32000, <<message>>, <<>>, 0, <<>>, handledBy,
       constructed, connected, NoSid, 0)

\* ------------------------------------------------- the SDK's transport
\* Session ids the transports constructed so far carry.
UsedIds == {i \in SessionIds : \E t \in 1..nT : tSession[t] = i}

\* A generator that can return an id already handed out.
sessionIdGenerator_collision == SessionIds

\* sessionIdGenerator: () => randomUUID() : an id no transport carries yet.
sessionIdGenerator == SessionIds \ UsedIds

HasCall(msgs) == \E i \in 1..Len(msgs) : msgs[i].method = "tools/call"

\* The upstream replies a request can meet: one per request, and only a
\* request that calls a tool meets any.
NoReply == Reply(0, "", NoCT, <<>>, JBad)
RepliesFor(body, accepted) ==
  IF accepted /\ HasCall(body.msgs) THEN UpstreamReplies ELSE {NoReply}

\* The handlers setupTools registers, applied to the messages of a request.
Serve(msgs, up) ==
  [i \in 1..Len(msgs) |->
     CASE msgs[i].method = "tools/list" ->
            Outcome(msgs[i], "list", ServerTools, NoTool)
       [] msgs[i].method = "tools/call" ->
            Outcome(msgs[i], "call", <<>>,
                    CallTool(cfg, msgs[i].name, msgs[i].args, up))
       [] OTHER -> Outcome(msgs[i], "none", <<>>, NoTool)]

\* transport.handleRequest(req, res, body) for a POST the SDK does not fail
\* on: tsid is the transport's own session id, hdr the session header,
\* accepted whether the SDK's checks of headers and protocol pass.
handleRequest(tsid, hdr, body, accepted, fresh, up) ==
  LET out(http, sessionId, results) ==
        [http |-> http, sessionId |-> sessionId, results |-> results]
  IN IF ~accepted \/ body.form \notin {"single", "batch"} THEN out(400, tsid, <<>>)
     ELSE IF HasInit(body.msgs)
     THEN IF tsid # NoSid \/ Len(body.msgs) > 1 THEN out(400, tsid, <<>>)
          ELSE out(200, fresh, <<Outcome(body.msgs[1], "initialize", <<>>, NoTool)>>)
     ELSE IF tsid = NoSid THEN out(400, tsid, <<>>)
     ELSE IF hdr # tsid THEN out(404, tsid, <<>>)
     ELSE out(200, tsid, Serve(body.msgs, up))

\* The ids the transport can generate for this request: one only for a lone
\* initialize on a transport that has none yet.
FreshFor(tsid, body, accepted) ==
  IF accepted /\ tsid = NoSid /\ isInitializeRequest(body) /\ Len(body.msgs) = 1
  THEN sessionIdGenerator ELSE {NoSid}

SdkResp(h, t, constructed, connected, registered) ==
  Resp("sdk", h.http, 0, <<>>, <<>>, 0, h.results, t, constructed, connected,
       registered, 0)

\* --------------------------------------------------- MetricoolMCPServer
Init ==
  /\ deployment \in Servers
  /\ cfg \in Configs
  /\ transports = [i \in SessionIds |-> NoTransport]
  /\ tSession = [t \in TransportIds |-> NoSid]
  /\ nT = 0
  /\ firstBound = [i \in SessionIds |-> NoTransport]
  /\ closed = FALSE
  /\ req = NoRequest
  /\ resp = NoResp
  /\ pending = {}

Registered(sid) == sid # NoSid /\ transports[sid] # NoTransport

\* The catch block of handlePostRequest.
InternalError(handledBy, constructed, connected) ==
  /\ resp' = createErrorResponse(500, "Internal server error.", handledBy,
                                 constructed, connected)
  /\ UNCHANGED <<transports, tSession, firstBound>>

\* First branch of handlePostRequest (both variants): the session's
\* transport handles the request.
ReuseTransport(sid, body) ==
  /\ UNCHANGED nT
  /\ \/ InternalError(transports[sid], NoTransport, FALSE)
     \/ \E accepted \in BOOLEAN :
          \E up \in RepliesFor(body, accepted) :
            /\ resp' = SdkResp(handleRequest(tSession[transports[sid]], sid, body,
                                             accepted, NoSid, up),
                               transports[sid], NoTransport, FALSE, NoSid)
            /\ UNCHANGED <<transports, tSession, firstBound>>

\* Second branch of handlePostRequest (both variants): a new transport is
\* constructed, connected, handles the handshake and is registered under
\* the session id it generated, if any.
Register(t, h, generatedSessionId) ==
  /\ tSession' = [tSession EXCEPT ![t] = generatedSessionId]
  /\ resp' = SdkResp(h, t, t, TRUE, generatedSessionId)
  /\ IF generatedSessionId # NoSid
     THEN /\ transports' = [transports EXCEPT ![generatedSessionId] = t]
          /\ firstBound' = IF firstBound[generatedSessionId] = NoTransport
                           THEN [firstBound EXCEPT ![generatedSessionId] = t]
                           ELSE firstBound
     ELSE UNCHANGED <<transports, firstBound>>

\* The catch block registering the transport that threw.
ThrownAfterId_registered(t, generatedSessionId) ==
  /\ generatedSessionId # NoSid
  /\ tSession' = [tSession EXCEPT ![t] = generatedSessionId]
  /\ resp' = createErrorResponse(500, "Internal server error.", t, t, TRUE)
  /\ transports' = [transports EXCEPT ![generatedSessionId] = t]
  /\ UNCHANGED firstBound

\* handleRequest threw after the transport had generated its session id:
\* the assignment to the registry is skipped, the catch block answers.
ThrownAfterId(t, generatedSessionId) ==
  /\ generatedSessionId # NoSid
  /\ tSession' = [tSession EXCEPT ![t] = generatedSessionId]
  /\ resp' = createErrorResponse(500, "Internal server error.", t, t, TRUE)
  /\ UNCHANGED <<transports, firstBound>>

Handshake(sid, body) ==
  /\ nT < MaxTransports
  /\ nT' = nT + 1
  /\ \/ InternalError(NoTransport, nT + 1, FALSE)
     \/ InternalError(nT + 1, nT + 1, TRUE)
     \/ \E fresh \in FreshFor(NoSid, body, TRUE) : ThrownAfterId(nT + 1, fresh)
     \/ \E accepted \in BOOLEAN :
          \E fresh \in FreshFor(NoSid, body, accepted) :
            Register(nT + 1,
                     handleRequest(NoSid, sid, body, accepted, fresh, NoReply),
                     handleRequest(NoSid, sid, body, accepted, fresh, NoReply).sessionId)

\* handlePostRequest that takes every request without a live session for a
\* handshake.
handlePostRequest_lenient(sid, body) ==
  IF Registered(sid) THEN ReuseTransport(sid, body) ELSE Handshake(sid, body)

\* handlePostRequest of unnamed/part_002.
handlePostRequest(sid, body) ==
  IF Registered(sid) THEN ReuseTransport(sid, body)
  ELSE IF sid = NoSid /\ isInitializeRequest(body) THEN Handshake(sid, body)
  ELSE /\ resp' = createErrorResponse(400, "Bad Request: invalid session.",
                                      NoTransport, NoTransport, FALSE)
       /\ UNCHANGED <<transports, tSession, nT, firstBound>>

\* The else branch registering the transport as the handshake branch does.
Unregistered_registering(t, h) ==
  /\ tSession' = [tSession EXCEPT ![t] = h.sessionId]
  /\ resp' = SdkResp(h, t, t, TRUE, h.sessionId)
  /\ firstBound' = firstBound
  /\ transports' = IF h.sessionId # NoSid
                   THEN [transports EXCEPT ![h.sessionId] = t] ELSE transports

\* Else branch of handlePostRequest of server.ts: a transport is made for
\* the one request and never registered.
Unregistered(t, h) ==
  /\ tSession' = [tSession EXCEPT ![t] = h.sessionId]
  /\ resp' = SdkResp(h, t, t, TRUE, NoSid)
  /\ UNCHANGED <<transports, firstBound>>

SessionlessTransport(sid, body) ==
  /\ nT < MaxTransports
  /\ nT' = nT + 1
  /\ \/ InternalError(NoTransport, nT + 1, FALSE)
     \/ InternalError(nT + 1, nT + 1, TRUE)
     \/ \E accepted \in BOOLEAN :
          \E fresh \in FreshFor(NoSid, body, accepted) :
            Unregistered(nT + 1,
                         handleRequest(NoSid, sid, body, accepted, fresh, NoReply))

\* handlePostRequest of server.ts.
server_handlePostRequest(sid, body) ==
  IF Registered(sid) THEN ReuseTransport(sid, body)
  ELSE IF sid = NoSid /\ isInitializeRequest(body) THEN Handshake(sid, body)
  ELSE SessionlessTransport(sid, body)

\* handleGetRequest that looks at the header and not at the registry.
handleGetRequest_anyHeader(sid) ==
  /\ UNCHANGED <<transports, tSession, nT, firstBound>>
  /\ IF sid = NoSid
     THEN resp' = [createErrorResponse(400, "Bad Request: invalid session ID.",
                                       NoTransport, NoTransport, FALSE)
                     EXCEPT !.via = "handleGetRequest"]
     ELSE resp' = [Resp("sdk", 200, 0, <<>>, <<>>, 0, <<>>,
                        transports[sid], NoTransport, FALSE, NoSid, 2)
                     EXCEPT !.via = "handleGetRequest"]

\* handleGetRequest of unnamed/part_002, followed by streamMessages: two
\* notifications are sent unless the transport throws.
handleGetRequest(sid) ==
  /\ UNCHANGED <<transports, tSession, nT, firstBound>>
  /\ IF ~Registered(sid)
     THEN resp' = [createErrorResponse(400, "Bad Request: invalid session ID.",
                                       NoTransport, NoTransport, FALSE)
                     EXCEPT !.via = "handleGetRequest"]
     ELSE \/ resp' = [Resp("exception", 0, 0, <<>>, <<>>, 0, <<>>,
                           transports[sid], NoTransport, FALSE, NoSid, 0)
                        EXCEPT !.via = "handleGetRequest"]
          \/ resp' = [Resp("sdk", 200, 0, <<>>, <<>>, 0, <<>>,
                           transports[sid], NoTransport, FALSE, NoSid, 2)
                        EXCEPT !.via = "handleGetRequest"]

\* ------------------------------------------------------- Worker fetch
\* The tools/call branch answering an error with id null.
toolsCallResponse_nullId(msg, r) ==
  IF r.thrown
  THEN Direct("rpcError", 500, errorCode(r.err), userMessage(r.err), r.err, 0,
              <<Outcome(msg, "call", <<>>,
                        [escaped |-> TRUE, isError |-> TRUE, text |-> r.err,
                         val |-> JUndef, calls |-> r.calls, sent |-> r.sent,
                         status |-> r.status, client |-> r.client,
                         bodyRead |-> r.bodyRead, raw |-> r.raw])>>)
  ELSE Direct("rpcResult", 200, 0, <<>>, <<>>, msg.id,
              <<Outcome(msg, "call", <<>>, ToolResult(FALSE, <<"json">>, r.val, r))>>)

\* The tools/call branch of fetch.
toolsCallResponse(msg, r) ==
  IF r.thrown
  THEN Direct("rpcError", 500, errorCode(r.err), userMessage(r.err), r.err, msg.id,
              <<Outcome(msg, "call", <<>>,
                        [escaped |-> TRUE, isError |-> TRUE, text |-> r.err,
                         val |-> JUndef, calls |-> r.calls, sent |-> r.sent,
                         status |-> r.status, client |-> r.client,
                         bodyRead |-> r.bodyRead, raw |-> r.raw])>>)
  ELSE Direct("rpcResult", 200, 0, <<>>, <<>>, msg.id,
              <<Outcome(msg, "call", <<>>, ToolResult(FALSE, <<"json">>, r.val, r))>>)

fetch_toolsCall(msg, up) ==
  toolsCallResponse(msg, idx_Dispatch(cfg, msg.name, msg.args, up))

\* getMetricoolServer(env) throws when the credentials are missing, and so
\* does every fetch.
fetch_noServer ==
  /\ resp' = Direct("exception", 0, 0, <<"METRICOOL credentials are required">>,
                    <<>>, 0, <<>>)
  /\ UNCHANGED <<transports, tSession, nT, firstBound>>

\* fetch of index.ts for a POST to /mcp.
fetch_post(sid, body) ==
  LET method == IF body.form = "single" THEN body.msgs[1].method ELSE "undefined"
      msg == body.msgs[1]
      direct(r) == resp' = r /\ UNCHANGED <<transports, tSession, nT, firstBound>>
  IN IF ~ClientConstructs(cfg) THEN fetch_noServer
     ELSE IF body.form = "invalid"
     THEN direct(Direct("rpcError", 400, -32700, <<"Invalid JSON payload">>, <<>>, 0, <<>>))
     ELSE IF method = "initialize"
     THEN direct(Direct("rpcResult", 200, 0, <<>>, <<>>, msg.id,
                        <<Outcome(msg, "initialize", <<>>, NoTool)>>))
     ELSE IF method = "notifications/initialized"
     THEN direct(Direct("plain", 200, 0, <<>>, <<>>, 0, <<>>))
     ELSE IF method = "tools/call"
     THEN \E up \in UpstreamReplies : direct(fetch_toolsCall(msg, up))
     ELSE IF method = "tools/list"
     THEN direct(Direct("rpcResult", 200, 0, <<>>, <<>>, msg.id,
                        <<Outcome(msg, "list", WorkerTools, NoTool)>>))
     ELSE server_handlePostRequest(sid, body)

\* fetch of index.ts for the other methods on /mcp.
fetch_other(verb) ==
  IF ~ClientConstructs(cfg) THEN fetch_noServer
  ELSE /\ UNCHANGED <<transports, tSession, nT, firstBound>>
       /\ resp' = IF verb = "GET" THEN Direct("plain", 200, 0, <<"OK">>, <<>>, 0, <<>>)
                  ELSE Direct("plain", 405, 0, <<"Method not allowed">>, <<>>, 0, <<>>)

\* ------------------------------------------------------------- actions
Idle == resp.kind = "none"

Headers == SessionIds \cup {NoSid}
OtherVerbs == {"GET", "DELETE"}

\* The Express process exists only if MetricoolClient could be constructed.
ExpressUp == deployment = "express" /\ ClientConstructs(cfg) /\ ~closed

\* The bodies drawn for a request with this session header: tool arguments
\* are varied for the requests that reach a tool handler, which in the
\* Express process are those of a registered session (of the first one,
\* while its transport is the only one: the handlers do not read the
\* session) and in the Worker those without session header (while no
\* transport exists: fetch's tools/call branch reads neither the header nor
\* the registry).
VariedFor(sid) ==
  IF deployment = "express" THEN Registered(sid) /\ nT = 1 ELSE sid = NoSid /\ nT = 0

BodiesFor(sid) == (IF VariedFor(sid) THEN Bodies ELSE PlainBodies) \cup {Invalid}

\* app.use(express.json()): text that is not JSON never reaches the route
\* handler; Express's error handler answers 400 with a page naming the
\* SyntaxError.
express_json ==
  /\ resp' = [Resp("plain", 400, 0, <<"SyntaxError">>, <<>>, 0, <<>>, NoTransport,
                   NoTransport, FALSE, NoSid, 0) EXCEPT !.via = "express.json"]
  /\ UNCHANGED <<transports, tSession, nT, firstBound>>

ExpressPost ==
  /\ Idle /\ ExpressUp
  /\ \E sid \in Headers : \E body \in BodiesFor(sid) :
       /\ req' = Request("POST", sid, body)
       /\ IF body.form = "invalid" THEN express_json
          ELSE handlePostRequest(sid, body)
  /\ UNCHANGED <<deployment, cfg, closed, pending>>

ExpressGet ==
  /\ Idle /\ ExpressUp
  /\ \E sid \in Headers :
       /\ req' = Request("GET", sid, Body("empty", <<>>))
       /\ handleGetRequest(sid)
  /\ UNCHANGED <<deployment, cfg, closed, pending>>

WorkerPost ==
  /\ Idle /\ deployment = "worker"
  /\ \E sid \in Headers : \E body \in BodiesFor(sid) :
       /\ req' = Request("POST", sid, body)
       /\ fetch_post(sid, body)
  /\ UNCHANGED <<deployment, cfg, closed, pending>>

WorkerOther ==
  /\ Idle /\ deployment = "worker"
  /\ \E verb \in OtherVerbs, sid \in Headers :
       /\ req' = Request(verb, sid, Body("empty", <<>>))
       /\ fetch_other(verb)
  /\ UNCHANGED <<deployment, cfg, closed, pending>>

\* cleanup() that empties the registry.
cleanup_evicting ==
  /\ Idle /\ ExpressUp
  /\ closed' = TRUE
  /\ transports' = [i \in SessionIds |-> NoTransport]
  /\ UNCHANGED <<deployment, cfg, tSession, nT, firstBound, req, resp, pending>>

\* cleanup(), run by the Express process on SIGINT before it exits.
cleanup ==
  /\ Idle /\ ExpressUp
  /\ closed' = TRUE
  /\ UNCHANGED <<deployment, cfg, transports, tSession, nT, firstBound, req, resp, pending>>

\* The response leaves; the next request can be taken.
Deliver ==
  /\ ~Idle
  /\ req' = NoRequest
  /\ resp' = NoResp
  /\ UNCHANGED <<deployment, cfg, transports, tSession, nT, firstBound, closed, pending>>

Next == ExpressPost \/ ExpressGet \/ WorkerPost \/ WorkerOther \/ cleanup \/ Deliver

Spec == Init /\ [][Next]_vars

\* ------------------------------------ handlers interleaved at their awaits
\* A handler runs from one await to the next without interruption; at an
\* await any other handler can run. The handshake branch of
\* handlePostRequest is the one handler whose effect on the registry comes
\* after an await: it is taken in two steps, up to the await of
\* transport.handleRequest and from there on. req and resp are the request
\* answered last and what its caller received.

\* A suspended handshake: its transport, its request, the transport's
\* answer, and whether that answer is held back until the handler returns
\* (the Worker builds its Response from the controller after
\* handlePostRequest returned; Express writes to the socket at once).
Suspended(t, q, answer, held) == [t |-> t, q |-> q, answer |-> answer, held |-> held]

\* The requests handlePostRequest takes for a handshake: in the Worker only
\* array bodies reach it.
ToHandshake(sid, body) ==
  /\ ~Registered(sid) /\ sid = NoSid /\ isInitializeRequest(body)
  /\ deployment = "worker" => body.form = "batch"

\* The handshake branch up to `await transport.handleRequest(...)`: the
\* transport is constructed and connected and handles the request; nothing
\* is registered yet.
Awaiting(t, q, h) ==
  /\ tSession' = [tSession EXCEPT ![t] = h.sessionId]
  /\ pending' = pending \cup {Suspended(t, q, SdkResp(h, t, t, TRUE, NoSid),
                                        deployment = "worker")}
  /\ IF deployment = "worker" THEN UNCHANGED <<req, resp>>
     ELSE req' = q /\ resp' = SdkResp(h, t, t, TRUE, NoSid)
  /\ UNCHANGED <<transports, firstBound>>

BeginHandshake(sid, body) ==
  /\ nT < MaxTransports
  /\ nT' = nT + 1
  /\ \/ /\ InternalError(NoTransport, nT + 1, FALSE)
        /\ req' = Request("POST", sid, body) /\ UNCHANGED pending
     \/ /\ InternalError(nT + 1, nT + 1, TRUE)
        /\ req' = Request("POST", sid, body) /\ UNCHANGED pending
     \/ \E accepted \in BOOLEAN :
          \E fresh \in FreshFor(NoSid, body, accepted) :
            Awaiting(nT + 1, Request("POST", sid, body),
                     handleRequest(NoSid, sid, body, accepted, fresh, NoReply))

\* The handshake branch from the await on: the transport is registered
\* under its session id, if it has one, and the handler returns.
ResumeHandshake ==
  /\ ~closed
  /\ \E p \in pending :
       /\ pending' = pending \ {p}
       /\ IF tSession[p.t] # NoSid
          THEN /\ transports' = [transports EXCEPT ![tSession[p.t]] = p.t]
               /\ firstBound' = IF firstBound[tSession[p.t]] = NoTransport
                                THEN [firstBound EXCEPT ![tSession[p.t]] = p.t]
                                ELSE firstBound
          ELSE UNCHANGED <<transports, firstBound>>
       /\ IF p.held
          THEN req' = p.q /\ resp' = [p.answer EXCEPT !.registered = tSession[p.t]]
          ELSE UNCHANGED <<req, resp>>
  /\ UNCHANGED <<deployment, cfg, tSession, nT, closed>>

\* The bodies of the interleaved requests: a handshake or a catalog read,
\* as one message or as an array of one.
AsyncBodies ==
  {Body(f, <<Msg(m, 1, "", NoArgs)>>) : f \in {"single", "batch"},
                                        m \in {"initialize", "tools/list"}}

\* A POST arrives and its handler runs to its first await that matters.
AsyncPost ==
  /\ ~closed
  /\ \E sid \in Headers : \E body \in AsyncBodies :
       IF ToHandshake(sid, body) THEN BeginHandshake(sid, body)
       ELSE /\ req' = Request("POST", sid, body)
            /\ IF deployment = "worker" THEN fetch_post(sid, body)
               ELSE handlePostRequest(sid, body)
            /\ UNCHANGED pending
  /\ UNCHANGED <<deployment, cfg, closed>>

AsyncGet ==
  /\ ~closed
  /\ \E sid \in Headers :
       /\ req' = Request("GET", sid, Body("empty", <<>>))
       /\ IF deployment = "worker" THEN fetch_other("GET") ELSE handleGetRequest(sid)
  /\ UNCHANGED <<deployment, cfg, closed, pending>>

\* SIGINT: cleanup() and the end of the process, whatever is suspended.
AsyncCleanup ==
  /\ ~closed /\ deployment = "express"
  /\ closed' = TRUE
  /\ UNCHANGED <<deployment, cfg, transports, tSession, nT, firstBound, req, resp, pending>>

AsyncInit == Init /\ ClientConstructs(cfg) /\ cfg.defaultBlogId = Undef

AsyncNext == AsyncPost \/ AsyncGet \/ ResumeHandshake \/ AsyncCleanup

AsyncSpec == AsyncInit /\ [][AsyncNext]_vars

\* ---------------------------------------------------------- properties
IsPost == req.verb = "POST"
Results == 1..Len(resp.results)
ArgsOf(i) == req.body.msgs[i].args

\* A 4xx answer, written by this code, by the transport or by Express.
ClientError(r) ==
  r.kind \in {"rpcError", "sdk", "plain"} /\ r.http >= 400 /\ r.http <= 499
\* Some message of the request reached the catalog or a tool handler.
ServedAny(r) == \E i \in 1..Len(r.results) : r.results[i].served \in {"list", "call"}
InvalidSession(r) ==
  /\ r.kind = "rpcError" /\ r.http = 400 /\ r.code = -32000
  /\ r.message = <<"Bad Request: invalid session.">>
SomeSession == \E s \in SessionIds : Registered(s)

\* C1 (as claimed): a POST whose session header names an id that is not in
\* the registry is answered with a client error, no transport is constructed
\* or connected for it, no message of it reaches the catalog or a tool
\* handler, and the registry is left as it was.
C1_UnknownSessionRejected ==
  [][(Idle /\ ClientConstructs(cfg) /\ req'.verb = "POST"
        /\ req'.sid # NoSid /\ transports[req'.sid] = NoTransport)
       => /\ ClientError(resp')
          /\ resp'.constructed = NoTransport
          /\ ~resp'.connected
          /\ ~ServedAny(resp')
          /\ transports' = transports]_vars

NoSessionNoInit ==
  /\ ClientConstructs(cfg) /\ IsPost /\ req.sid = NoSid
  /\ req.body.form \in {"single", "batch", "empty"}
  /\ ~HasInit(req.body.msgs)

\* C4 (as claimed): in every entry point a POST without session id that is
\* not an initialize message gets the 'invalid session' client error and
\* reaches neither the catalog nor a tool handler.
C4_NoSessionRejected ==
  NoSessionNoInit => InvalidSession(resp) /\ ~ServedAny(resp)

\* C4 (amended): in the Express entry point a POST without session id that
\* is not an initialize message gets the 'invalid session' client error,
\* reaches neither the catalog nor a tool handler, and no transport is made.
C4_ExpressNoSessionRejected ==
  (deployment = "express" /\ NoSessionNoInit)
    => InvalidSession(resp) /\ ~ServedAny(resp) /\ resp.constructed = NoTransport

\* C4 witness: with a session registered, a tools/call without session
\* header is turned away by the Express entry point.
C4_Witness ==
  /\ deployment = "express" /\ NoSessionNoInit /\ SomeSession
  /\ req.body.form = "single" /\ req.body.msgs[1].method = "tools/call"
  /\ InvalidSession(resp)

\* Absent, empty or only whitespace.
Blank(x) == x.t = "undef" \/ (x.t = "str" /\ \A i \in 1..Len(x.v) : x.v[i] = " ")
RequiredOf(name) ==
  CASE name = timelineTool -> "metric"
    [] name = valuesTool -> "category"
    [] name = reportStatusTool -> "jobId"
    [] OTHER -> ""

\* C5: a call of get-timeline, get-values or report-status whose required
\* argument is absent, empty or blank fails, and no upstream request is made.
C5_RequiredArgument ==
  \A i \in Results :
    (resp.results[i].served = "call" /\ RequiredOf(resp.results[i].name) # ""
       /\ Blank(ArgsOf(i)[RequiredOf(resp.results[i].name)]))
      => /\ resp.results[i].tool.isError
         /\ resp.results[i].tool.calls = 0
         /\ resp.results[i].tool.sent = NoReq

\* C5 witness: get-timeline called with a blank metric and every other
\* argument set has failed without an upstream request.
C5_Witness ==
  \E i \in Results :
    /\ resp.results[i].served = "call" /\ resp.results[i].name = timelineTool
    /\ ArgsOf(i).metric = Str(<<" ">>) /\ ArgsOf(i).blogId = SetBlog
    /\ resp.results[i].tool.isError /\ resp.results[i].tool.calls = 0

\* C6 (as claimed): list-reports called with no blogId argument and no
\* default workspace fails with an error naming the missing configuration
\* and makes no upstream request, in every deployment variant.
C6_ListReportsNeedsWorkspace ==
  \A i \in Results :
    (resp.results[i].served = "call" /\ resp.results[i].name = reportsTool
       /\ ~Truthy(ArgsOf(i).blogId) /\ ~Truthy(cfg.defaultBlogId))
      => /\ resp.results[i].tool.isError
         /\ resp.results[i].tool.calls = 0
         /\ Includes(resp.results[i].tool.text, "Set METRICOOL_BLOG_ID or pass blogId.")

AcceptsBlogId(name) ==
  name \in {timelineTool, valuesTool, reportsTool, reportStatusTool} \cup PostsTools
NonEmpty(x) == x.t = "str" /\ x.v # <<>>

\* C7: the request a workspace-scoped tool sends carries the blogId argument
\* when it is non-empty, else the configured default when one is set, else
\* no blogId parameter.
C7_WorkspacePrecedence ==
  \A i \in Results :
    (resp.results[i].served = "call" /\ AcceptsBlogId(resp.results[i].name)
       /\ resp.results[i].tool.calls = 1)
      => IF NonEmpty(ArgsOf(i).blogId)
         THEN /\ "blogId" \in DOMAIN resp.results[i].tool.sent.params
              /\ resp.results[i].tool.sent.params.blogId = ArgsOf(i).blogId.v
         ELSE IF NonEmpty(cfg.defaultBlogId)
         THEN /\ "blogId" \in DOMAIN resp.results[i].tool.sent.params
              /\ resp.results[i].tool.sent.params.blogId = cfg.defaultBlogId.v
         ELSE "blogId" \notin DOMAIN resp.results[i].tool.sent.params

\* C7 witness: with a default workspace configured, a call carrying its own
\* blogId sent that blogId upstream.
C7_Witness ==
  \E i \in Results :
    /\ resp.results[i].served = "call" /\ resp.results[i].name = timelineTool
    /\ resp.results[i].tool.calls = 1
    /\ NonEmpty(cfg.defaultBlogId) /\ ArgsOf(i).blogId = SetBlog
    /\ resp.results[i].tool.sent.params.blogId = SetBlog.v

\* The catalog of whoever answered: the Worker's fetch or MetricoolMCPServer.
CatalogOf(r) == IF r.via = "fetch" THEN WorkerTools ELSE ServerTools
NamesUnknownTool(o) ==
  /\ o.tool.isError
  /\ Includes(o.tool.text, "Unknown tool: ")
  /\ Includes(o.tool.text, o.name)

\* C8 (as claimed): a tools/call whose name is not in the catalog fails with
\* an 'unknown tool' error naming the tool, and makes no upstream request.
C8_UnknownTool ==
  \A i \in Results :
    (resp.results[i].served = "call"
       /\ resp.results[i].name \notin NamesOf(CatalogOf(resp)))
      => /\ NamesUnknownTool(resp.results[i])
         /\ resp.results[i].tool.calls = 0

\* C8 (amended): a tools/call whose name is non-empty and not in the catalog
\* fails with an 'unknown tool' error naming the tool; an empty name given
\* to MetricoolMCPServer fails with 'Tool name is required', thrown out of
\* the call handler; neither makes an upstream request.
C8_UnknownOrMissingTool ==
  \A i \in Results :
    (resp.results[i].served = "call"
       /\ resp.results[i].name \notin NamesOf(CatalogOf(resp)))
      => /\ resp.results[i].tool.calls = 0
         /\ resp.results[i].tool.sent = NoReq
         /\ IF resp.results[i].name = "" /\ resp.via # "fetch"
            THEN /\ resp.results[i].tool.escaped
                 /\ resp.results[i].tool.text = <<"Tool name is required">>
            ELSE NamesUnknownTool(resp.results[i])

\* C8 witness: MetricoolMCPServer answered a call of an unknown tool with an
\* error result naming it.
C8_Witness ==
  \E i \in Results :
    /\ resp.via = "handlePostRequest"
    /\ resp.results[i].served = "call" /\ resp.results[i].name = "bogus"
    /\ NamesUnknownTool(resp.results[i]) /\ ~resp.results[i].tool.escaped

WellFormed(catalog) ==
  /\ Cardinality(NamesOf(catalog)) = Len(catalog)
  /\ \A j \in 1..Len(catalog) :
       catalog[j].description # "" /\ catalog[j].inputSchema.type = "object"

\* C9 (as claimed): every tools/list response holds exactly six descriptors
\* with distinct names, non-empty descriptions and object schemas.
C9_SixTools ==
  \A i \in Results :
    resp.results[i].served = "list"
      => Len(resp.results[i].catalog) = 6 /\ WellFormed(resp.results[i].catalog)

\* C10 (as claimed): when the upstream answers a tool's request with a
\* non-2xx status, the call completes with an error tool result whose text
\* contains the status code; it is no JSON-RPC error and nothing is thrown
\* out of the call handler.
C10_UpstreamFailureIsToolError ==
  \A i \in Results :
    (resp.results[i].served = "call" /\ resp.results[i].tool.calls = 1
       /\ ~Ok(resp.results[i].tool.status))
      => /\ resp.results[i].tool.isError
         /\ ~resp.results[i].tool.escaped
         /\ Includes(resp.results[i].tool.text, ToString(resp.results[i].tool.status))
         /\ resp.kind \notin {"rpcError", "exception"}

\* The arguments of a call pass the validation the tool is specified with:
\* the tool is in the catalog, its required argument is usable, and a
\* reports tool has a workspace from the call or from the configuration.
ReportTools == {reportsTool, reportStatusTool}
ValidCall(o, args) ==
  /\ o.name \in NamesOf(CatalogOf(resp))
  /\ (RequiredOf(o.name) # "" => ~Blank(args[RequiredOf(o.name)]))
  /\ (o.name \in ReportTools => Truthy(args.blogId) \/ Truthy(cfg.defaultBlogId))

\* C11 (as claimed): every tool invocation issues at most one upstream
\* request: exactly one when argument validation and workspace resolution
\* succeed, none otherwise; an upstream failure is not followed by a second
\* request.
C11_OneRequestPerInvocation ==
  \A i \in Results :
    resp.results[i].served = "call"
      => /\ resp.results[i].tool.calls =
              (IF ValidCall(resp.results[i], ArgsOf(i)) THEN 1 ELSE 0)
         /\ (resp.results[i].tool.isError => resp.results[i].tool.calls <= 1)

\* C12: no upstream request carries an empty account id or an empty token,
\* and with a credential missing no request is answered at all: nothing is
\* served, no transport is made, the construction error is all there is.
C12_CredentialsBeforeAnyCall ==
  /\ \A i \in Results :
       resp.results[i].tool.calls > 0
         => /\ resp.results[i].tool.sent.params.userId = cfg.userId
            /\ resp.results[i].tool.sent.params.userToken = cfg.userToken
            /\ cfg.userId # <<>> /\ cfg.userToken # <<>>
  /\ ~ClientConstructs(cfg)
       => /\ resp.kind \in {"none", "exception"}
          /\ resp.results = <<>>
          /\ nT = 0

\* C12 witness: the Worker, configured with an account id and no token, was
\* sent a tools/call and failed constructing its server.
C12_Witness ==
  /\ cfg.userId # <<>> /\ cfg.userToken = <<>>
  /\ IsPost /\ req.body.form = "single" /\ req.body.msgs[1].method = "tools/call"
  /\ resp.kind = "exception" /\ resp.results = <<>>

\* C13 (as claimed): when the upstream answers 204 the upstream client
\* returns undefined to the tool handler, without reading a body and without
\* throwing, in every variant of the client.
C13_NoContentIsUndefined ==
  \A i \in Results :
    (resp.results[i].served = "call" /\ resp.results[i].tool.calls = 1
       /\ resp.results[i].tool.status = 204)
      => /\ resp.results[i].tool.client = "returned"
         /\ ~resp.results[i].tool.bodyRead

\* The upstream answered 2xx and the client threw all the same: the body
\* was not JSON or could not be parsed.
ContractViolation(o) ==
  /\ o.served = "call" /\ o.tool.calls = 1
  /\ Ok(o.tool.status) /\ o.tool.client = "threw"
NonOkReplies == {up \in UpstreamReplies : ~Ok(up.status)}
\* What the caller is told of a failed call: the JSON-RPC error code and
\* message of the Worker, the text of MetricoolMCPServer's error result.
ClassOf(r, o) == IF r.via = "fetch" THEN <<r.code, r.message>> ELSE <<0, o.tool.text>>
\* The same for the failure a non-2xx reply to the same request produces.
ClassOfReply(via, sent, up) ==
  IF via = "fetch"
  THEN <<errorCode(apiCallOutcome(sent, up).err), userMessage(apiCallOutcome(sent, up).err)>>
  ELSE <<0, Caught(requestOutcome(sent, up)).text>>

\* C14 (as claimed): a 2xx reply that is not JSON or cannot be parsed is
\* reported with a classification that no non-2xx reply is reported with.
C14_ViolationDistinctFromStatus ==
  \A i \in Results :
    ContractViolation(resp.results[i])
      => \A up \in NonOkReplies :
           ClassOf(resp, resp.results[i])
             # ClassOfReply(resp.via, resp.results[i].tool.sent, up)

\* C15 (as claimed): a tools/call failing for a client reason (required
\* argument missing, unknown tool, no workspace for a reports tool) is
\* answered with a JSON-RPC error whose code is a client-error code, not the
\* code of internal or upstream failures, and no upstream request is made.
C15_ClientErrorCode ==
  \A i \in Results :
    (resp.results[i].served = "call" /\ ~ValidCall(resp.results[i], ArgsOf(i)))
      => /\ resp.kind = "rpcError"
         /\ resp.code \in {-32600, -32601, -32602}
         /\ resp.results[i].tool.calls = 0

\* C16 (as claimed): a POST whose body is not valid JSON is answered with
\* the JSON-RPC parse error -32700 and HTTP 400, and has no other effect: no
\* transport is made or used, nothing is registered, nothing is served.
C16_ParseError ==
  [][(Idle /\ ClientConstructs(cfg) /\ req'.verb = "POST"
        /\ req'.body.form = "invalid")
       => /\ resp'.kind = "rpcError" /\ resp'.code = -32700 /\ resp'.http = 400
          /\ resp'.results = <<>>
          /\ resp'.handledBy = NoTransport /\ resp'.constructed = NoTransport
          /\ UNCHANGED <<transports, tSession, nT, firstBound>>]_vars

\* C17 (as claimed): in every entry point a successful initialize returns a
\* session id to the caller, and the registry holds that id once the
\* request is complete, so that a follow-up carrying it is recognised.
C17_InitializeYieldsSession ==
  (\E i \in Results : resp.results[i].served = "initialize")
    => /\ resp.registered # NoSid
       /\ Registered(resp.registered)

\* An optional argument that is absent, null or the empty string.
Unset(x) == x.t \in {"undef", "null"} \/ x = Str(<<>>)
DateParams == {"start", "end", "date"}
SentParams(i) == resp.results[i].tool.sent.params

\* C18 (as claimed): when an optional argument (start, end, date, blogId)
\* is absent, null or empty, the request sent carries no parameter of that
\* name; and no parameter of a request sent is the empty string.
C18_UnsetArgumentOmitted ==
  \A i \in Results :
    (resp.results[i].served = "call" /\ resp.results[i].tool.calls = 1)
      => /\ \A q \in DateParams :
              Unset(ArgsOf(i)[q]) => q \notin DOMAIN SentParams(i)
         /\ (AcceptsBlogId(resp.results[i].name) /\ Unset(ArgsOf(i).blogId))
              => "blogId" \notin DOMAIN SentParams(i)
         /\ \A p \in DOMAIN SentParams(i) : SentParams(i)[p] # <<>>

\* C18 (amended): when start, end or date is absent, null or empty, the
\* request sent carries no parameter of that name; when blogId is absent,
\* null or empty, the request carries the configured default workspace if
\* one is set and no blogId otherwise; and no parameter of a request sent is
\* the empty string.
C18_UnsetParameterOmitted ==
  \A i \in Results :
    (resp.results[i].served = "call" /\ resp.results[i].tool.calls = 1)
      => /\ \A q \in DateParams :
              Unset(ArgsOf(i)[q]) => q \notin DOMAIN SentParams(i)
         /\ Unset(ArgsOf(i).blogId)
              => IF NonEmpty(cfg.defaultBlogId)
                 THEN /\ "blogId" \in DOMAIN SentParams(i)
                      /\ SentParams(i).blogId = cfg.defaultBlogId.v
                 ELSE "blogId" \notin DOMAIN SentParams(i)
         /\ \A p \in DOMAIN SentParams(i) : SentParams(i)[p] # <<>>

\* C18 witness: get-timeline was called with start set, end empty and
\* blogId null while the default workspace is the empty string, and the
\* request sent carries start and neither end nor blogId.
C18_Witness ==
  \E i \in Results :
    /\ resp.results[i].served = "call" /\ resp.results[i].name = timelineTool
    /\ resp.results[i].tool.calls = 1
    /\ ArgsOf(i).blogId = Null /\ ArgsOf(i).start = SetStart /\ ArgsOf(i).end = Str(<<>>)
    /\ cfg.defaultBlogId = Str(<<>>)
    /\ DOMAIN SentParams(i) = {"userId", "userToken", "start"}

\* The configuration with another account id and another token.
AltUserId == <<"u", "8">>
AltUserToken == <<"t", "x">>
AltCfg(c) == [c EXCEPT !.userId = AltUserId, !.userToken = AltUserToken]

\* The error texts of a failed call: what is thrown (and logged) and what
\* the caller is told, as the answering code computes them for a
\* configuration and an upstream reply.
ErrorTexts(via, c, name, args, up) ==
  IF via = "fetch"
  THEN <<idx_Dispatch(c, name, args, up).err,
         userMessage(idx_Dispatch(c, name, args, up).err)>>
  ELSE <<Dispatch(c, name, args, up).err, CallTool(c, name, args, up).text>>
\* The same as observed in the response.
ObservedTexts(r, o) ==
  IF r.via = "fetch" THEN <<r.data, r.message>>
  ELSE <<SubSeq(o.tool.text, 2, Len(o.tool.text)), o.tool.text>>

\* The upstream replies a tool outcome can stem from.
RepliesBehind(o) ==
  IF o.tool.calls = 0 THEN {NoReply}
  ELSE {up \in UpstreamReplies : up.status = o.tool.status}

\* C19: for a failed call, every upstream reply that accounts for the error
\* text under the configured credentials yields the very same text under
\* other credentials: the text does not depend on account id or token.
C19_ErrorTextWithoutCredentials ==
  \A i \in Results :
    (resp.results[i].served = "call" /\ resp.results[i].tool.isError
       /\ ~(resp.results[i].tool.escaped /\ resp.via # "fetch"))
      => \A up \in RepliesBehind(resp.results[i]) :
           (ErrorTexts(resp.via, cfg, resp.results[i].name, ArgsOf(i), up)
              = ObservedTexts(resp, resp.results[i]))
             => (ErrorTexts(resp.via, AltCfg(cfg), resp.results[i].name, ArgsOf(i), up)
                   = ObservedTexts(resp, resp.results[i]))

\* C19 witness: a call sent the token upstream, was answered 401, and
\* failed with a text naming the status.
C19_Witness ==
  \E i \in Results :
    /\ resp.results[i].served = "call" /\ resp.results[i].tool.isError
    /\ resp.via = "handlePostRequest"
    /\ resp.results[i].tool.calls = 1 /\ resp.results[i].tool.status = 401
    /\ resp.results[i].tool.sent.params.userToken = UserToken
    /\ Includes(resp.results[i].tool.text, "401")
    /\ \E up \in RepliesBehind(resp.results[i]) :
         ErrorTexts(resp.via, cfg, resp.results[i].name, ArgsOf(i), up)
           = ObservedTexts(resp, resp.results[i])

\* A get-timeline call whose upstream body was a list of pairs.
TimelineOfPairs(o) ==
  /\ o.served = "call" /\ o.name = timelineTool
  /\ o.tool.client = "returned" /\ o.tool.raw.k = "arr"

\* C20 (as claimed): the result of get-timeline for an upstream list of
\* [date, value] pairs is a list of the same length and order whose i-th
\* element has the i-th pair's date unchanged and its value as a number.
C20_TimelineShaped ==
  \A i \in Results :
    TimelineOfPairs(resp.results[i])
      => /\ ~resp.results[i].tool.isError
         /\ Len(resp.results[i].tool.val.rows) = Len(resp.results[i].tool.raw.rows)
         /\ \A j \in 1..Len(resp.results[i].tool.raw.rows) :
              /\ resp.results[i].tool.val.rows[j].date
                   = resp.results[i].tool.raw.rows[j][1]
              /\ resp.results[i].tool.val.rows[j].value.t = "num"
              /\ resp.results[i].tool.val.rows[j].value
                   = Number(resp.results[i].tool.raw.rows[j][2])

\* C20 (amended): the same, the value being the pair's second component
\* coerced to a number when it has a numeric value, and null when it has
\* none.
C20_TimelineShapedOrNull ==
  \A i \in Results :
    TimelineOfPairs(resp.results[i])
      => /\ ~resp.results[i].tool.isError
         /\ Len(resp.results[i].tool.val.rows) = Len(resp.results[i].tool.raw.rows)
         /\ \A j \in 1..Len(resp.results[i].tool.raw.rows) :
              /\ resp.results[i].tool.val.rows[j].date
                   = resp.results[i].tool.raw.rows[j][1]
              /\ resp.results[i].tool.val.rows[j].value
                   = (IF Number(resp.results[i].tool.raw.rows[j][2]) = NaN
                      THEN Null ELSE Number(resp.results[i].tool.raw.rows[j][2]))

\* C20 witness: the body [["20240101","5"],["20240102","7"]] was shaped
\* into [{date:"20240101",value:5},{date:"20240102",value:7}].
C20_Witness ==
  \E i \in Results :
    /\ TimelineOfPairs(resp.results[i])
    /\ resp.results[i].tool.raw.rows = ExampleRows
    /\ resp.results[i].tool.val.rows
         = << [date |-> Str(<<"2", "0", "2", "4", "0", "1", "0", "1">>), value |-> Num(5)],
              [date |-> Str(<<"2", "0", "2", "4", "0", "1", "0", "2">>), value |-> Num(7)] >>

\* C21: the session registry only grows: an entry, once made, is there after
\* every step with the same transport, whatever the step is (a request that
\* fails, a request of another session, a handshake, cleanup()).
C21_RegistryOnlyGrows ==
  [][\A s \in SessionIds :
       transports[s] # NoTransport => transports'[s] = transports[s]]_vars

\* C21 witness: cleanup() has run with two sessions registered, and both
\* entries are as they were first made.
C21_Witness ==
  /\ closed
  /\ \E s, t \in SessionIds :
       /\ s # t /\ Registered(s) /\ Registered(t)
       /\ transports[s] = firstBound[s] /\ transports[t] = firstBound[t]

\* The request q was a handshake and r its answer: a POST without session
\* header whose body is or contains an initialize message, which the
\* transport made for it answered 200.
Handshaken(q, r) ==
  /\ q.verb = "POST" /\ q.sid = NoSid /\ isInitializeRequest(q.body)
  /\ r.kind = "sdk" /\ r.http = 200 /\ r.handledBy = r.constructed
  /\ r.registered # NoSid
  /\ \A i \in 1..Len(r.results) : r.results[i].served = "initialize"

\* C22: a step that changes the session registry is the handling of a
\* handshake, and what it changes is the entry of the id it registered; a
\* step that serves tools/list or tools/call, attaches a GET or rejects a
\* request leaves the registry as it was; no step changes the credentials,
\* and every tools/list shows the catalog its server was constructed with.
C22_OnlyHandshakeWrites ==
  [][/\ transports' # transports
          => /\ Handshaken(req', resp')
             /\ transports' = [transports EXCEPT ![resp'.registered] = resp'.constructed]
     /\ (ServedAny(resp') \/ req'.verb = "GET" \/ ClientError(resp'))
          => transports' = transports
     /\ cfg' = cfg /\ deployment' = deployment
     /\ \A i \in 1..Len(resp'.results) :
          resp'.results[i].served = "list"
            => resp'.results[i].catalog = CatalogOf(resp')]_vars

\* C22 witness: a tools/call of a registered session failed upstream while
\* another session id was still free, and nothing was registered by it.
C22_Witness ==
  /\ IsPost /\ Registered(req.sid) /\ resp.registered = NoSid
  /\ \E i \in Results :
       /\ resp.results[i].served = "call" /\ resp.results[i].tool.isError
       /\ resp.results[i].tool.calls = 1
  /\ \E s \in SessionIds : ~Registered(s)
  /\ \A s \in SessionIds : transports[s] = firstBound[s]

InvalidSessionId(r) ==
  /\ r.kind = "rpcError" /\ r.http = 400 /\ r.code = -32000
  /\ r.message = <<"Bad Request: invalid session ID.">>

\* C23 (as claimed): a GET with an absent or unregistered session id is
\* answered with the 400 'invalid session ID' client error, no transport
\* handles it and no notification is streamed; a GET is attached to a stream
\* only when its session id is registered.
C23_EveryGetNeedsSession ==
  (req.verb = "GET" /\ ClientConstructs(cfg))
    => /\ ~Registered(req.sid)
            => /\ InvalidSessionId(resp)
               /\ resp.handledBy = NoTransport /\ resp.notifications = 0
       /\ resp.handledBy # NoTransport
            => Registered(req.sid) /\ resp.handledBy = transports[req.sid]

\* C23 (amended): the same of a GET that reaches
\* MetricoolMCPServer.handleGetRequest, which is every GET of the Express
\* entry point; the Worker's fetch answers every GET itself with 200 'OK'
\* and hands none of them to a transport.
C23_GetNeedsSession ==
  /\ (req.verb = "GET" /\ resp.via = "handleGetRequest")
       => /\ ~Registered(req.sid)
               => /\ InvalidSessionId(resp)
                  /\ resp.handledBy = NoTransport /\ resp.notifications = 0
          /\ resp.handledBy # NoTransport
               => Registered(req.sid) /\ resp.handledBy = transports[req.sid]
  /\ (req.verb = "GET" /\ deployment = "express") => resp.via = "handleGetRequest"
  /\ (req.verb = "GET" /\ resp.via = "fetch" /\ resp.kind = "plain")
       => /\ resp.http = 200 /\ resp.message = <<"OK">>
          /\ resp.handledBy = NoTransport /\ resp.notifications = 0

\* C23 witness: with one session registered, a GET carrying an id that is
\* not registered was turned away by handleGetRequest.
C23_Witness ==
  /\ req.verb = "GET" /\ resp.via = "handleGetRequest"
  /\ req.sid # NoSid /\ ~Registered(req.sid) /\ SomeSession
  /\ InvalidSessionId(resp) /\ resp.handledBy = NoTransport

\* The upstream answered 2xx with no content or with a body the client
\* could decode.
Degradable(o) ==
  /\ o.served = "call" /\ o.tool.calls = 1 /\ Ok(o.tool.status)
  /\ (o.tool.status = 204 \/ o.tool.client = "returned")
NoDataField(o) == o.tool.client = "returned" /\ o.tool.raw.k = "obj" /\ ~o.tool.raw.hasData

\* C24 (as claimed): a 2xx upstream answer that lacks the expected fields or
\* content never makes a tool invocation fail: list-reports with no data
\* field yields an empty list, report-status with no data field an empty
\* record, and a 204 handed to any tool (list-brands, get-timeline, get-posts
\* among them) yields a result that is no error.
C24_GracefulDegradation ==
  \A i \in Results :
    Degradable(resp.results[i])
      => /\ ~resp.results[i].tool.isError
         /\ (resp.results[i].name = reportsTool /\ NoDataField(resp.results[i]))
              => resp.results[i].tool.val = JArr(0)
         /\ (resp.results[i].name = reportStatusTool /\ NoDataField(resp.results[i]))
              => resp.results[i].tool.val = JObj(FALSE, 0, <<>>, <<>>)

\* A POST that handlePostRequest takes for a handshake.
HandshakeRequest(q, r) ==
  /\ q.verb = "POST" /\ r.via = "handlePostRequest"
  /\ q.sid = NoSid /\ isInitializeRequest(q.body)
\* connect or handleRequest raised an error: the transport did not answer.
Raised(r) == r.constructed # NoTransport /\ r.kind # "sdk"

\* C26: a handshake in which connect or handleRequest raises an error, or
\* whose transport has no session id, adds no registry entry; when an
\* error was raised the caller gets the 500 'Internal server error'
\* JSON-RPC error and the registry is what it was before the request, even
\* if the transport had generated its session id by then.
C26_FailedHandshakeRegistersNothing ==
  [][(Idle /\ HandshakeRequest(req', resp'))
       => /\ resp'.constructed = nT'
          /\ (Raised(resp') \/ tSession'[nT'] = NoSid)
               => transports' = transports /\ resp'.registered = NoSid
          /\ Raised(resp')
               => /\ resp'.kind = "rpcError" /\ resp'.http = 500
                  /\ resp'.code = -32000
                  /\ resp'.message = <<"Internal server error.">>
                  /\ resp'.results = <<>>]_vars

\* C26 witness: with one session registered, a handshake failed after its
\* transport had generated a session id; the caller got the 500 error and
\* the id is not in the registry.
C26_Witness ==
  /\ HandshakeRequest(req, resp) /\ Raised(resp) /\ resp.http = 500
  /\ resp.connected
  /\ tSession[resp.constructed] # NoSid
  /\ ~Registered(tSession[resp.constructed])
  /\ SomeSession

\* The names a tools/call dispatcher accepts: those it does not answer with
\* 'Unknown tool'.
AcceptedBy(via) ==
  {n \in ToolNames :
     ~Includes((IF via = "fetch" THEN idx_Dispatch(cfg, n, NoArgs, NoReply)
                ELSE Dispatch(cfg, n, NoArgs, NoReply)).err, "Unknown tool: ")}
\* The dispatcher that serves the tools/call messages of an entry point: the
\* switch of index.ts in the Worker, that of MetricoolMCPServer in Express.
DispatcherOf(d) == IF d = "worker" THEN "fetch" ELSE "handlePostRequest"

\* C27 (as claimed): within each entry point the names a tools/list returns
\* are the names the tools/call dispatcher of that entry point accepts, also
\* end to end in the Worker, whose tools/call messages index.ts dispatches.
C27_ListedEqualsAccepted ==
  \A i \in Results :
    resp.results[i].served = "list"
      => NamesOf(resp.results[i].catalog) = AcceptedBy(DispatcherOf(deployment))

\* The request is one tools/call message with a non-empty tool name, sent
\* to a process whose credentials are configured.
NamedCall ==
  /\ IsPost /\ ClientConstructs(cfg)
  /\ req.body.form = "single" /\ req.body.msgs[1].method = "tools/call"
  /\ req.body.msgs[1].name # ""

\* C28: with credentials configured, a tools/call with a non-empty tool name
\* has exactly one outcome once the upstream call, if any, has returned or
\* failed: a success result or an error result. Whatever fails inside a
\* handler (validation, the upstream status, the body, the shaping, fetch
\* itself) is caught: nothing leaves the call handler as an exception.
C28_CallAlwaysAnswered ==
  /\ NamedCall
       => /\ resp.kind \in {"sdk", "rpcResult", "rpcError"}
          /\ Len(resp.results) <= 1
          /\ (deployment = "worker" => Len(resp.results) = 1)
  /\ \A i \in Results :
       (resp.results[i].served = "call" /\ resp.results[i].name # "")
         => /\ resp.results[i].tool.calls <= 1
            /\ IF resp.via = "fetch"
               THEN \/ /\ resp.kind = "rpcResult" /\ resp.http = 200
                       /\ ~resp.results[i].tool.isError
                    \/ /\ resp.kind = "rpcError" /\ resp.http = 500
                       /\ resp.results[i].tool.isError
               ELSE /\ resp.kind = "sdk"
                    /\ ~resp.results[i].tool.escaped
                    /\ resp.results[i].tool.isError
                         <=> Includes(resp.results[i].tool.text,
                                      "Metricool API call failed: ")

\* C28 witness: fetch itself failed on the request of a list-brands call of
\* MetricoolMCPServer, and the call was answered with an error result.
C28_Witness ==
  /\ NamedCall /\ resp.via = "handlePostRequest"
  /\ \E i \in Results :
       /\ resp.results[i].served = "call" /\ resp.results[i].name = listBrandsTool
       /\ resp.results[i].tool.calls = 1 /\ resp.results[i].tool.status = 0
       /\ resp.results[i].tool.isError /\ ~resp.results[i].tool.escaped
       /\ Includes(resp.results[i].tool.text, "fetch")

\* The Worker's fetch answered one initialize, tools/list or tools/call
\* message with a JSON-RPC response.
AnsweredByFetch ==
  /\ IsPost /\ resp.via = "fetch" /\ resp.kind \in {"rpcResult", "rpcError"}
  /\ req.body.form = "single"
  /\ req.body.msgs[1].method \in {"initialize", "tools/list", "tools/call"}

\* C29: the JSON-RPC response the Worker's fetch gives to initialize,
\* tools/list and tools/call carries the id of the request, on the success
\* path and on the error path of tools/call; and fetch answers every such
\* message itself.
C29_ResponseIdIsRequestId ==
  /\ AnsweredByFetch => resp.id = req.body.msgs[1].id
  /\ (deployment = "worker" /\ IsPost /\ ClientConstructs(cfg)
        /\ req.body.form = "single"
        /\ req.body.msgs[1].method \in {"initialize", "tools/list", "tools/call"})
       => AnsweredByFetch

\* C29 witness: a tools/call with id 2 failed upstream and its JSON-RPC error
\* carries id 2.
C29_Witness ==
  /\ AnsweredByFetch /\ req.body.msgs[1].method = "tools/call"
  /\ req.body.msgs[1].id = 2
  /\ resp.kind = "rpcError" /\ resp.http = 500 /\ resp.id = 2

\* The rules of the claim, in its order: the fragments a rule looks for and
\* the code it gives.
Rule(needles, code) == [needles |-> needles, code |-> code]
ClaimedRules ==
  << Rule({"HTML error page returned", "returned HTML instead of JSON"}, -32002),
     Rule({"401", "Unauthorized"}, -32600),
     Rule({"403", "Forbidden"}, -32600),
     Rule({"404"}, -32601),
     Rule({"500", "502", "503"}, -32002),
     Rule({"timeout", "TIMEOUT"}, -32002),
     Rule({"network", "fetch"}, -32002) >>
Matching(text) == {k \in 1..Len(ClaimedRules) : IncludesAny(text, ClaimedRules[k].needles)}
\* The code of the first rule that matches, -32603 when none does.
FirstMatch(text) ==
  IF Matching(text) = {} THEN -32603
  ELSE ClaimedRules[CHOOSE k \in Matching(text) : \A j \in Matching(text) : k <= j].code

\* The Worker's fetch answered a tools/call that failed.
FailedByFetch ==
  /\ IsPost /\ resp.via = "fetch"
  /\ req.body.form = "single" /\ req.body.msgs[1].method = "tools/call"
  /\ \E i \in Results : resp.results[i].tool.isError

\* C30: the JSON-RPC code of a failed tools/call of the Worker is the code
\* of the first rule, in the claimed order, that the error text matches, and
\* -32603 when none matches; and every failed tools/call is answered with
\* HTTP status 500.
C30_FirstMatchingRule ==
  FailedByFetch
    => /\ resp.kind = "rpcError" /\ resp.http = 500
       /\ resp.code = FirstMatch(resp.data)
       /\ resp.data = resp.results[1].tool.text

\* C30 witness: the error text of a 401 answered with an HTML page matches
\* the HTML rule and the 401 rule, whose codes differ, and the call got the
\* code of the HTML rule.
C30_Witness ==
  /\ FailedByFetch
  /\ {1, 2} \subseteq Matching(resp.data)
  /\ resp.results[1].tool.status = 401
  /\ resp.code = -32002 /\ resp.http = 500

\* The session ids a client has been told in a handshake response: those
\* registered, and those of suspended handshakes whose answer was not held
\* back.
Told ==
  {s \in SessionIds :
     \/ Registered(s)
     \/ \E p \in pending : ~p.held /\ tSession[p.t] = s /\ p.answer.http = 200}
TransportOf(s) == CHOOSE t \in TransportIds : tSession[t] = s

\* C25 (as claimed): however the handlers interleave at their awaits, a POST
\* carrying a session id that a handshake response has told a client is not
\* rejected as an invalid session by handlePostRequest: it is handed to the
\* transport that generated the id.
C25_ToldSessionNeverRejected ==
  (IsPost /\ req.sid \in Told /\ resp.via = "handlePostRequest")
    => /\ ~InvalidSession(resp)
       /\ resp.handledBy = TransportOf(req.sid)

====
